---- MODULE Spec2Model ----
(***************************************************************************)
(* Folder-remark tool: the desktop.ini persistence engine                  *)
(* (core/ini_service.py, core/utils.py), the batch save of the main window *)
(* (ui/main_window.py) and the single-instance channel                     *)
(* (core/single_instance.py, main.py).                                     *)
(*                                                                         *)
(* Text is a sequence of one-character strings.  A desktop.ini file is a   *)
(* record of the encoding its bytes are in and the lines they spell; the   *)
(* parser document is what ConfigParser keeps: the DEFAULT mapping and the *)
(* ordered sections, each an ordered list of key/value pairs.              *)
(***************************************************************************)
EXTENDS Integers, Sequences, FiniteSets, TLC

\* Longest remark a user types, in characters.
MaxRemarkLen == 2

\* core/constants.py
FILE_ATTRIBUTE_HIDDEN == 2
FILE_ATTRIBUTE_SYSTEM == 4
\* 0xFFFFFFFF, as <<high, low>> 16-bit halves: 65535 * 65536 + 65535.
INVALID_FILE_ATTRIBUTES == <<65535, 65535>>

\* The characters of the model: a letter, the blank (whitespace, which
\* str.strip removes) and the percent sign (ConfigParser's interpolation
\* character).  "%(name)s" references need more characters and are outside.
Chars == {"a", " ", "%"}

RECURSIVE SeqsUpTo(_, _)
SeqsUpTo(S, n) ==
    IF n = 0 THEN {<< >>}
    ELSE LET shorter == SeqsUpTo(S, n - 1)
         IN  shorter \cup {Append(s, c) : s \in {t \in shorter : Len(t) = n - 1}, c \in S}

Remarks == SeqsUpTo(Chars, MaxRemarkLen)

----------------------------------------------------------------------------
\* Python integers: a value as <<high, low>> halves (the low one in
\* 0..65535), and the bit operators, which read a negative integer in two's
\* complement.

Halves(n) == <<n \div 65536, n % 65536>>

RECURSIVE BitAnd(_, _)
BitAnd(a, b) ==
    IF a = 0 \/ b = 0 THEN 0
    ELSE (IF a % 2 = 1 /\ b % 2 = 1 THEN 1 ELSE 0) + 2 * BitAnd(a \div 2, b \div 2)

RECURSIVE BitOr(_, _)
BitOr(a, b) ==
    IF a = 0 THEN b
    ELSE IF b = 0 THEN a
    ELSE (IF a % 2 = 1 \/ b % 2 = 1 THEN 1 ELSE 0) + 2 * BitOr(a \div 2, b \div 2)

----------------------------------------------------------------------------
\* str methods used by the code and by ConfigParser.

IsSpace(c) == c = " "

RECURSIVE LStrip(_)
LStrip(s) == IF s # << >> /\ IsSpace(Head(s)) THEN LStrip(Tail(s)) ELSE s

RECURSIVE RStrip(_)
RStrip(s) ==
    IF s # << >> /\ IsSpace(s[Len(s)]) THEN RStrip(SubSeq(s, 1, Len(s) - 1)) ELSE s

\* str.strip()
Strip(s) == RStrip(LStrip(s))

\* str.lower() on the option names and the folder names of the model.
Lower(k) ==
    CASE k \in {"InfoTip", "infotip", "INFOTIP"} -> "infotip"
      [] k = "IconResource" -> "iconresource"
      [] k \in {"$RECYCLE.BIN", "$Recycle.Bin", "$recycle.bin"} -> "$recycle.bin"
      [] k \in {"System Volume Information", "SYSTEM VOLUME INFORMATION",
                "system volume information"} -> "system volume information"
      [] k \in {"Docs", "docs"} -> "docs"
      [] k \in {"TEMP", "Temp", "temp"} -> "temp"
      [] OTHER -> k

----------------------------------------------------------------------------
\* Python dict, insertion-ordered: a sequence of [k, v] without repeated k.

RECURSIVE DictKeys(_)
DictKeys(d) == IF d = << >> THEN << >> ELSE <<Head(d).k>> \o DictKeys(Tail(d))

DictHas(d, k) == \E i \in 1..Len(d) : d[i].k = k

DictGet(d, k) == d[CHOOSE i \in 1..Len(d) : d[i].k = k].v

\* d[k] = v: an existing key keeps its place, a new key goes last.
RECURSIVE DictSet(_, _, _)
DictSet(d, k, v) ==
    IF d = << >> THEN <<[k |-> k, v |-> v]>>
    ELSE IF Head(d).k = k THEN <<[k |-> k, v |-> v]>> \o Tail(d)
    ELSE <<Head(d)>> \o DictSet(Tail(d), k, v)

DictDel(d, k) == SelectSeq(d, LAMBDA e : e.k # k)

\* dict.update: d's entries, overwritten and extended by e's.
RECURSIVE DictUpdate(_, _)
DictUpdate(d, e) ==
    IF e = << >> THEN d ELSE DictUpdate(DictSet(d, Head(e).k, Head(e).v), Tail(e))

----------------------------------------------------------------------------
\* configparser.ConfigParser as the code uses it (optionxform = str, strict,
\* BasicInterpolation, delimiters "=" and ":", no inline comments).

DEFAULTSECT == "DEFAULT"

\* ConfigParser(): no defaults, no sections.
EmptyParser == [defaults |-> << >>, sections |-> << >>]

RECURSIVE SectionNames(_)
SectionNames(secs) ==
    IF secs = << >> THEN << >> ELSE <<Head(secs).name>> \o SectionNames(Tail(secs))

\* parser.sections()
Sections(p) == SectionNames(p.sections)

\* parser.has_section(section): the DEFAULT section is never one.
HasSection(p, section) == \E i \in 1..Len(p.sections) : p.sections[i].name = section

SectionOpts(p, section) ==
    p.sections[CHOOSE i \in 1..Len(p.sections) : p.sections[i].name = section].opts

RECURSIVE ReplaceOpts(_, _, _)
ReplaceOpts(secs, section, opts) ==
    IF secs = << >> THEN << >>
    ELSE IF Head(secs).name = section
    THEN <<[name |-> section, opts |-> opts]>> \o Tail(secs)
    ELSE <<Head(secs)>> \o ReplaceOpts(Tail(secs), section, opts)

WithSectionOpts(p, section, opts) ==
    [p EXCEPT !.sections = ReplaceOpts(p.sections, section, opts)]

\* parser.add_section(section), for a section that is not there.
AddSection(p, section) ==
    [p EXCEPT !.sections = Append(p.sections, [name |-> section, opts |-> << >>])]

\* parser.remove_section(section)
RemoveSection(p, section) ==
    [p EXCEPT !.sections = SelectSeq(p.sections, LAMBDA s : s.name # section)]

\* parser.options(section): the section's own keys, then the DEFAULT keys
\* it does not have.
Options(p, section) == DictKeys(DictUpdate(SectionOpts(p, section), p.defaults))

\* parser.has_option(section, option): own or DEFAULT.
HasOption(p, section, option) ==
    DictHas(SectionOpts(p, section), option) \/ DictHas(p.defaults, option)

\* parser.remove_option(section, option): removes the section's own key only.
RemoveOption(p, section, option) ==
    WithSectionOpts(p, section, DictDel(SectionOpts(p, section), option))

\* BasicInterpolation.before_set: with every "%%" taken out, no "%" may be
\* left (ValueError otherwise).
RECURSIVE DropEscapes(_)
DropEscapes(s) ==
    IF s = << >> THEN << >>
    ELSE IF Len(s) >= 2 /\ s[1] = "%" /\ s[2] = "%" THEN DropEscapes(SubSeq(s, 3, Len(s)))
    ELSE <<Head(s)>> \o DropEscapes(Tail(s))

BeforeSetOk(value) ==
    LET tmp_value == DropEscapes(value)
    IN  \A i \in 1..Len(tmp_value) : tmp_value[i] # "%"

\* BasicInterpolation.before_get (_interpolate_some): "%%" reads as "%"; a
\* "%" followed by anything else than "%" or "(" raises
\* InterpolationSyntaxError.
RECURSIVE Interpolate(_)
Interpolate(s) ==
    IF s = << >> THEN [ok |-> TRUE, v |-> << >>]
    ELSE IF Head(s) # "%"
    THEN LET rest == Interpolate(Tail(s))
         IN  [ok |-> rest.ok, v |-> <<Head(s)>> \o rest.v]
    ELSE IF Len(s) >= 2 /\ s[2] = "%"
    THEN LET rest == Interpolate(SubSeq(s, 3, Len(s)))
         IN  [ok |-> rest.ok, v |-> <<"%">> \o rest.v]
    ELSE [ok |-> FALSE, v |-> << >>]

\* parser.set(section, option, value)
ParserSet(p, section, option, value) ==
    IF BeforeSetOk(value)
    THEN [ok |-> TRUE,
          p |-> WithSectionOpts(p, section, DictSet(SectionOpts(p, section), option, value))]
    ELSE [ok |-> FALSE, p |-> p]

\* parser.get(section, option): the section's own value before DEFAULT's,
\* interpolated.
ParserGet(p, section, option) ==
    LET d == DictUpdate(p.defaults, SectionOpts(p, section))
    IN  Interpolate(DictGet(d, option))

\* parser.items(section): DEFAULT's entries updated by the section's, every
\* value interpolated; raises when one of them does not interpolate.
Items(p, section) ==
    LET d == DictUpdate(p.defaults, SectionOpts(p, section))
    IN  [ok |-> \A i \in 1..Len(d) : Interpolate(d[i].v).ok,
         n |-> Len(d)]

----------------------------------------------------------------------------
\* The text of a desktop.ini, line by line.  A line is a section header
\* "[name]", an option line (the key, and raw: the characters after the
\* delimiter, up to the end of the line), a line with no delimiter, or an
\* empty line.

SecLine(name) == [t |-> "sec", k |-> name, raw |-> << >>]
KvLine(key, raw) == [t |-> "kv", k |-> key, raw |-> raw]
JunkLine == [t |-> "junk", k |-> "", raw |-> << >>]
BlankLine == [t |-> "blank", k |-> "", raw |-> << >>]

\* One line of parser.read_string in the state st = [p, cur, have, err, stop]:
\* cur is the section the options go to (have: whether there is one yet),
\* err whether a ParsingError was collected, stop whether an exception
\* already ended the read.  The texts of the model repeat no section and no
\* key inside a section (DuplicateSectionError, DuplicateOptionError).
ReadLine(st, line) ==
    IF st.stop \/ line.t = "blank" THEN st
    ELSE IF line.t = "sec"
    THEN IF line.k = DEFAULTSECT \/ HasSection(st.p, line.k)
         THEN [st EXCEPT !.cur = line.k, !.have = TRUE]
         ELSE [st EXCEPT !.p = AddSection(st.p, line.k), !.cur = line.k, !.have = TRUE]
    ELSE IF ~st.have
    THEN [st EXCEPT !.stop = TRUE, !.err = TRUE]       \* MissingSectionHeaderError
    ELSE IF line.t = "junk"
    THEN [st EXCEPT !.err = TRUE]                      \* ParsingError, raised at the end
    ELSE IF st.cur = DEFAULTSECT
    THEN [st EXCEPT !.p.defaults = DictSet(st.p.defaults, line.k, Strip(line.raw))]
    ELSE [st EXCEPT !.p = WithSectionOpts(st.p, st.cur,
                              DictSet(SectionOpts(st.p, st.cur), line.k, Strip(line.raw)))]

RECURSIVE ReadLines(_, _)
ReadLines(st, text) ==
    IF text = << >> THEN st ELSE ReadLines(ReadLine(st, Head(text)), Tail(text))

\* parser.read_string(text): the parser as the read leaves it, and whether
\* the read returned (ok) or raised.  What was parsed before or around an
\* error stays in the parser.
ReadString(p, text) ==
    LET st == ReadLines([p |-> p, cur |-> "", have |-> FALSE, err |-> FALSE, stop |-> FALSE],
                        text)
    IN  [ok |-> ~st.err, p |-> st.p]

RECURSIVE WriteOpts(_)
WriteOpts(opts) ==
    IF opts = << >> THEN << >>
    ELSE <<KvLine(Head(opts).k, <<" ">> \o Head(opts).v)>> \o WriteOpts(Tail(opts))

\* RawConfigParser._write_section: the header, "key = value" per option, and
\* an empty line.
WriteSection(name, opts) == <<SecLine(name)>> \o WriteOpts(opts) \o <<BlankLine>>

RECURSIVE WriteSections(_)
WriteSections(secs) ==
    IF secs = << >> THEN << >>
    ELSE WriteSection(Head(secs).name, Head(secs).opts) \o WriteSections(Tail(secs))

\* parser.write(file): DEFAULT first when it has entries, then every section.
ParserWrite(p) ==
    (IF p.defaults # << >> THEN WriteSection(DEFAULTSECT, p.defaults) ELSE << >>)
        \o WriteSections(p.sections)

----------------------------------------------------------------------------
\* Files.  The bytes of a file are given by the encoding they are valid in
\* and the text they spell in it: "utf-16" (with BOM), "utf-8-sig", "mbcs"
\* (the locale code page), or "binary" for bytes that are text in none.

NoFile == [present |-> FALSE, enc |-> "binary", text |-> << >>, attrs |-> 0]

\* Path.read_text(encoding): the bytes of one encoding do not read as a
\* document in another (a UnicodeDecodeError, or text whose first line is
\* no section header).
ReadText(file, encoding) ==
    IF file.enc = encoding THEN [ok |-> TRUE, text |-> file.text]
    ELSE [ok |-> FALSE, text |-> << >>]

Encodings == <<"utf-16", "utf-8-sig", "mbcs">>

RECURSIVE TryEncodings(_, _, _)
TryEncodings(file, parser, i) ==
    IF i > Len(Encodings) THEN parser
    ELSE LET t == ReadText(file, Encodings[i])
             r == ReadString(parser, t.text)
         IN  IF t.ok /\ r.ok THEN r.p
             ELSE TryEncodings(file, IF t.ok THEN r.p ELSE parser, i + 1)

\* safe_read_config(ini_path)
safe_read_config(file) ==
    IF ~file.present THEN EmptyParser ELSE TryEncodings(file, EmptyParser, 1)

\* write_config opening the file with "a": the document is appended.
write_config_append(file, parser) ==
    [present |-> TRUE, enc |-> "utf-16", text |-> file.text \o ParserWrite(parser),
     attrs |-> IF file.present THEN file.attrs ELSE 0]

\* write_config(ini_path, parser): open(..., "w", encoding="utf-16") keeps
\* the attributes of a file that is there and creates one with none.
write_config(file, parser) ==
    [present |-> TRUE, enc |-> "utf-16", text |-> ParserWrite(parser),
     attrs |-> IF file.present THEN file.attrs ELSE 0]

----------------------------------------------------------------------------
\* core/utils.py: attributes.  A folder is [exists, attrs, ini]; env names
\* the Win32 call that reports failure during the operation, if any.

WinCalls == {"none", "GetFolder", "SetFolder", "GetIni", "SetIni"}

\* ctypes.windll.kernel32.GetFileAttributesW(str(path)): the call answers
\* the DWORD 0xFFFFFFFF for a path that is not there or cannot be read, and
\* ctypes, with no restype set, hands that to Python as the C int -1.
GetFileAttributesW(exists, attrs, fails) ==
    IF exists /\ ~fails THEN attrs ELSE -1

\* get_file_attributes(path): FileNotFoundError when the value equals
\* INVALID_FILE_ATTRIBUTES.
get_file_attributes(exists, attrs, fails) ==
    LET attr == GetFileAttributesW(exists, attrs, fails)
    IN  [ok |-> Halves(attr) # INVALID_FILE_ATTRIBUTES, attr |-> attr]

\* ensure_folder_system(folder)
ensure_folder_system(fo, env) ==
    LET got == get_file_attributes(fo.exists, fo.attrs, env = "GetFolder")
        attributes == got.attr
    IN  IF ~got.ok
        THEN [err |-> "FileNotFoundError", fo |-> fo, calls |-> <<"get_folder">>]
        ELSE IF BitAnd(attributes, FILE_ATTRIBUTE_SYSTEM) # 0
        THEN [err |-> "", fo |-> fo, calls |-> <<"get_folder">>]
        ELSE IF env = "SetFolder"
        THEN [err |-> "OSError", fo |-> fo, calls |-> <<"get_folder", "set_folder">>]
        ELSE [err |-> "",
              fo |-> [fo EXCEPT !.attrs = BitOr(attributes, FILE_ATTRIBUTE_SYSTEM)],
              calls |-> <<"get_folder", "set_folder">>]

\* ensure_ini_hidden_system(ini_path)
ensure_ini_hidden_system(file, env) ==
    LET got == get_file_attributes(file.present, file.attrs, env = "GetIni")
        attributes == got.attr
        target == BitOr(BitOr(attributes, FILE_ATTRIBUTE_HIDDEN), FILE_ATTRIBUTE_SYSTEM)
    IN  IF ~got.ok
        THEN [err |-> "FileNotFoundError", file |-> file, calls |-> <<"get_ini">>]
        ELSE IF target = attributes
        THEN [err |-> "", file |-> file, calls |-> <<"get_ini">>]
        ELSE IF env = "SetIni"
        THEN [err |-> "OSError", file |-> file, calls |-> <<"get_ini", "set_ini">>]
        ELSE [err |-> "", file |-> [file EXCEPT !.attrs = target],
              calls |-> <<"get_ini", "set_ini">>]

----------------------------------------------------------------------------
\* core/ini_service.py: DesktopIniService.

SECTION == ".ShellClassInfo"

\* for option in parser.options(section): if option.lower() == "infotip"
RECURSIVE FirstInfoTip(_)
FirstInfoTip(options) ==
    IF options = << >> THEN ""
    ELSE IF Lower(Head(options)) = "infotip" THEN Head(options)
    ELSE FirstInfoTip(Tail(options))

\* read_info_tip(folder): err is the exception that leaves the call, "" when
\* it returns value.
read_info_tip(fo) ==
    LET parser == safe_read_config(fo.ini)
        option == FirstInfoTip(Options(parser, SECTION))
    IN  IF ~HasSection(parser, SECTION) \/ option = ""
        THEN [err |-> "", value |-> << >>]
        ELSE LET got == ParserGet(parser, SECTION, option)
             IN  IF got.ok THEN [err |-> "", value |-> got.v]
                 ELSE [err |-> "InterpolationSyntaxError", value |-> << >>]

\* The removal loop comparing option == "InfoTip", without lower().
RemoveInfoTips_exact(parser, options) == RemoveOption(parser, SECTION, "InfoTip")

\* A removal loop that empties the section.
RemoveInfoTips_all(parser, options) == WithSectionOpts(parser, SECTION, << >>)

\* for option in list(parser.options(section)): remove the "infotip" ones.
RECURSIVE RemoveInfoTips(_, _)
RemoveInfoTips(parser, options) ==
    IF options = << >> THEN parser
    ELSE RemoveInfoTips(
            IF Lower(Head(options)) = "infotip"
            THEN RemoveOption(parser, SECTION, Head(options))
            ELSE parser,
            Tail(options))

\* write_info_tip, lines 131-137: set the remark, or clear it and drop the
\* section when it has no items left.
SetOrClear(parser, remark) ==
    IF remark # << >>
    THEN LET r == ParserSet(parser, SECTION, "InfoTip", remark)
         IN  [err |-> IF r.ok THEN "" ELSE "ValueError", p |-> r.p]
    ELSE LET p1 == IF HasOption(parser, SECTION, "InfoTip")
                   THEN RemoveOption(parser, SECTION, "InfoTip")
                   ELSE parser
             items == Items(p1, SECTION)
         IN  IF ~items.ok THEN [err |-> "InterpolationSyntaxError", p |-> p1]
             ELSE IF items.n = 0 THEN [err |-> "", p |-> RemoveSection(p1, SECTION)]
             ELSE [err |-> "", p |-> p1]

\* A write that takes the system attribute back from the folder when it
\* deletes the sidecar.
Persist_rollback(fo, parser, env) ==
    IF Sections(parser) = << >>
    THEN [err |-> "",
          fo |-> [fo EXCEPT !.ini = NoFile,
                            !.attrs = @ - BitAnd(@, FILE_ATTRIBUTE_SYSTEM)],
          calls |-> IF fo.ini.present THEN <<"unlink">> ELSE << >>]
    ELSE LET written == write_config(fo.ini, parser)
             e == ensure_ini_hidden_system(written, env)
         IN  [err |-> e.err, fo |-> [fo EXCEPT !.ini = e.file],
              calls |-> <<"open_w">> \o e.calls]

\* write_info_tip, lines 139-145: delete the file when the document has no
\* section, write it and set its attributes otherwise.
Persist(fo, parser, env) ==
    IF Sections(parser) = << >>
    THEN IF fo.ini.present
         THEN [err |-> "", fo |-> [fo EXCEPT !.ini = NoFile], calls |-> <<"unlink">>]
         ELSE [err |-> "", fo |-> fo, calls |-> << >>]
    ELSE LET written == write_config(fo.ini, parser)
             e == ensure_ini_hidden_system(written, env)
         IN  [err |-> e.err, fo |-> [fo EXCEPT !.ini = e.file],
              calls |-> <<"open_w">> \o e.calls]

\* write_info_tip without the folder.exists() check of lines 115-116.
write_info_tip_unchecked(fo, remark, env) ==
    LET e == ensure_folder_system(fo, env)
        parser == safe_read_config(e.fo.ini)
        p1 == IF ~HasSection(parser, SECTION) THEN AddSection(parser, SECTION) ELSE parser
        m == SetOrClear(RemoveInfoTips(p1, Options(p1, SECTION)), remark)
        w == Persist(e.fo, m.p, env)
    IN  IF e.err # "" THEN e
        ELSE IF m.err # "" THEN [err |-> m.err, fo |-> e.fo, calls |-> e.calls]
        ELSE [err |-> w.err, fo |-> w.fo, calls |-> e.calls \o w.calls]

\* write_info_tip(folder, remark): the folder as the call leaves it, the
\* exception that leaves the call ("" when it returns) and the file-system
\* calls it made.
write_info_tip(fo, remark, env) ==
    IF ~fo.exists
    THEN [err |-> "FileNotFoundError", fo |-> fo, calls |-> << >>]
    ELSE LET e == ensure_folder_system(fo, env)
         IN  IF e.err # "" THEN e
             ELSE LET parser == safe_read_config(e.fo.ini)
                      p1 == IF ~HasSection(parser, SECTION)
                            THEN AddSection(parser, SECTION) ELSE parser
                      p2 == RemoveInfoTips(p1, Options(p1, SECTION))
                      m == SetOrClear(p2, remark)
                      w == Persist(e.fo, m.p, env)
                  IN  IF m.err # ""
                      THEN [err |-> m.err, fo |-> e.fo, calls |-> e.calls]
                      ELSE [err |-> w.err, fo |-> w.fo, calls |-> e.calls \o w.calls]

----------------------------------------------------------------------------
\* core/ini_service.py: FolderRemark and list_subfolders; ui/table_actions.py
\* and ui/main_window.py: the table, the FolderRemark map and the save.

\* The subfolders of the directory the window shows.  A folder's path and
\* its name are the same string here.
Folders == {"f1", "f2", "f3"}

\* The names a directory entry has in the listing specification: casings of
\* the two system directories, of a directory a service may be told to skip,
\* and of an ordinary one.
EntryNames ==
    {"$RECYCLE.BIN", "$Recycle.Bin", "$recycle.bin",
     "System Volume Information", "SYSTEM VOLUME INFORMATION",
     "Docs", "docs", "TEMP", "Temp", "temp"}

\* sorted(subfolders): the order of the paths (WindowsPath compares without
\* regard to case; a directory holds one casing of a name).
PathOrder ==
    <<"$RECYCLE.BIN", "$Recycle.Bin", "$recycle.bin", "Docs", "docs",
      "f1", "f2", "f3",
      "System Volume Information", "SYSTEM VOLUME INFORMATION",
      "TEMP", "Temp", "temp">>

\* core/constants.py
DEFAULT_SKIP_NAMES == {"$RECYCLE.BIN", "System Volume Information"}

\* A constructor that keeps the names as they were given.
init_skip_names_verbatim(configured) == configured

\* DesktopIniService.__init__(skip_names): {name.lower() for name in skip_names}
init_skip_names(configured) == {Lower(name) : name \in configured}

\* The skip_names of the service the window makes, DesktopIniService().
skip_names == init_skip_names(DEFAULT_SKIP_NAMES)

\* list_subfolders(parent) of a service with the given skip_names, for a
\* parent that exists and can be scanned: fsys holds the entries of parent.
scan_subfolders(service_skip_names, fsys) ==
    SelectSeq(PathOrder,
              LAMBDA f : /\ f \in DOMAIN fsys
                         /\ fsys[f].exists
                         /\ Lower(f) \notin service_skip_names)

\* list_subfolders(parent) of the window's service.
list_subfolders(fsys) == scan_subfolders(skip_names, fsys)

FolderRemark(name, path, original_remark, current_remark) ==
    [name |-> name, path |-> path,
     original_remark |-> original_remark, current_remark |-> current_remark]

\* The loop of _load_directory: an exception of read_info_tip leaves the
\* loop and the handler, with the rows inserted so far.
RECURSIVE LoadRows(_, _, _, _)
LoadRows(fsys, subfolders, rws, tbl) ==
    IF subfolders = << >> THEN [err |-> "", rows |-> rws, table |-> tbl]
    ELSE LET folder == Head(subfolders)
             got == read_info_tip(fsys[folder])
         IN  IF got.err # "" THEN [err |-> got.err, rows |-> rws, table |-> tbl]
             ELSE LoadRows(fsys, Tail(subfolders),
                           DictSet(rws, folder,
                                   FolderRemark(folder, folder, got.value, got.value)),
                           Append(tbl, [name |-> folder, remark |-> got.value,
                                        path |-> folder]))

\* _load_directory(path): rows_by_path and the table, cleared and refilled.
load_directory(fsys) == LoadRows(fsys, list_subfolders(fsys), << >>, << >>)

\* An edit that changes the displayed row and not the FolderRemark entry.
RECURSIVE sync_remark_table_only(_, _, _, _)
sync_remark_table_only(tbl, rws, paths, remark) ==
    IF tbl = << >> THEN [table |-> << >>, rows |-> rws]
    ELSE LET item == Head(tbl)
             rest == sync_remark_table_only(Tail(tbl), rws, paths, remark)
         IN  [table |-> <<IF item.path \in paths THEN [item EXCEPT !.remark = remark]
                          ELSE item>> \o rest.table,
              rows |-> rws]

\* sync_remark_to_rows(table, rows_by_path, paths, remark)
RECURSIVE sync_remark_to_rows(_, _, _, _)
sync_remark_to_rows(tbl, rws, paths, remark) ==
    IF tbl = << >> THEN [table |-> << >>, rows |-> rws]
    ELSE LET item == Head(tbl)
             hit == item.path \in paths
             rws1 == IF hit /\ DictHas(rws, item.path)
                     THEN DictSet(rws, item.path,
                                  [DictGet(rws, item.path) EXCEPT !.current_remark = remark])
                     ELSE rws
             rest == sync_remark_to_rows(Tail(tbl), rws1, paths, remark)
         IN  [table |-> <<IF hit THEN [item EXCEPT !.remark = remark] ELSE item>>
                          \o rest.table,
              rows |-> rest.rows]

\* The columns of the table, as sort_by_column's index_map names them.
SortColumns == {"name", "remark", "path"}

\* The order of the characters of the model: " " (32), "%" (37), "a" (97).
CharRank(c) == CASE c = " " -> 32 [] c = "%" -> 37 [] OTHER -> 97

\* s < t for two texts.
RECURSIVE TextLess(_, _)
TextLess(s, t) ==
    IF t = << >> THEN FALSE
    ELSE IF s = << >> THEN TRUE
    ELSE IF Head(s) = Head(t) THEN TextLess(Tail(s), Tail(t))
    ELSE CharRank(Head(s)) < CharRank(Head(t))

\* The place of a folder name, or path, in the order of strings.
NameRank(n) == CHOOSE i \in 1..Len(PathOrder) : PathOrder[i] = n

\* sort_key(a) < sort_key(b) for the column: values[index].lower().
KeyLess(column, a, b) ==
    CASE column = "remark" -> TextLess(a.remark, b.remark)
      [] column = "name" -> NameRank(a.name) < NameRank(b.name)
      [] OTHER -> NameRank(a.path) < NameRank(b.path)

\* list.sort is stable, in either direction: an item goes behind the items
\* it does not come before.
RECURSIVE InsertSorted(_, _, _, _)
InsertSorted(sorted, x, column, descending) ==
    IF sorted = << >> THEN <<x>>
    ELSE IF (IF descending THEN KeyLess(column, Head(sorted), x)
             ELSE KeyLess(column, x, Head(sorted)))
    THEN <<x>> \o sorted
    ELSE <<Head(sorted)>> \o InsertSorted(Tail(sorted), x, column, descending)

RECURSIVE SortItems(_, _, _, _)
SortItems(done, items, column, descending) ==
    IF items = << >> THEN done
    ELSE SortItems(InsertSorted(done, Head(items), column, descending),
                   Tail(items), column, descending)

\* sort_by_column(table, column, sort_directions): the rows moved into the
\* sorted order, the direction of the column flipped.
sort_by_column(tbl, column, directions) ==
    LET reverse == directions[column]
    IN  [table |-> SortItems(<< >>, tbl, column, ~reverse),
         sort_directions |-> [directions EXCEPT ![column] = ~reverse]]

\* apply_callback of _bulk_mapping_dialog, lines 543-552: for each name of
\* the mapping that is a selected row and whose remark differs from the one
\* the row showed, _set_remark_for_paths([path], remark).
RECURSIVE ApplyMapping(_, _, _, _, _)
ApplyMapping(tbl, rws, names, name_to_info, mapping_dict) ==
    IF names = << >> THEN [table |-> tbl, rows |-> rws]
    ELSE LET name == Head(names)
             hit == /\ name \in DOMAIN mapping_dict
                    /\ name \in DOMAIN name_to_info
                    /\ mapping_dict[name] # name_to_info[name].remark
             res == IF hit
                    THEN sync_remark_to_rows(tbl, rws, {name_to_info[name].path},
                                             mapping_dict[name])
                    ELSE [table |-> tbl, rows |-> rws]
         IN  ApplyMapping(res.table, res.rows, Tail(names), name_to_info, mapping_dict)

\* A save that takes every row for changed.
Changed_all(rws) == rws

\* _save_changes, lines 590-594: the rows whose remark was edited.
Changed(rws) ==
    SelectSeq(rws, LAMBDA e : e.v.current_remark # e.v.original_remark)

\* What _save_changes tells the user, with the map it started from.
NoReport ==
    [changed |-> << >>, attempts |-> << >>, success |-> << >>, failed |-> << >>,
     before |-> << >>]

\* One pass of the write loop with the outcome of its write_info_tip.
SaveOne(fsys, rws, row, rep, res) ==
    [fs |-> [fsys EXCEPT ![row.path] = res.fo],
     rows |-> IF res.err = ""
              THEN DictSet(rws, row.path,
                           [row EXCEPT !.original_remark = row.current_remark])
              ELSE rws,
     rep |-> [rep EXCEPT
                !.attempts = Append(@, row.path),
                !.success = IF res.err = "" THEN Append(@, row.name) ELSE @,
                !.failed = IF res.err = "" THEN @ ELSE Append(@, <<row.name, res.err>>)]]

\* A write loop that a failing write_info_tip ends.
RECURSIVE SaveLoop_abort(_, _, _, _)
SaveLoop_abort(fsys, rws, changed, rep) ==
    IF changed = << >> THEN [fs |-> fsys, rows |-> rws, rep |-> rep]
    ELSE LET row == Head(changed).v
             one == SaveOne(fsys, rws, row, rep,
                            write_info_tip(fsys[row.path], row.current_remark, "none"))
         IN  IF one.rep.failed # rep.failed THEN one
             ELSE SaveLoop_abort(one.fs, one.rows, Tail(changed), one.rep)

\* _save_changes, lines 599-607: for row in changed: try the write, list
\* the row as success or as failure.
RECURSIVE SaveLoop(_, _, _, _)
SaveLoop(fsys, rws, changed, rep) ==
    IF changed = << >> THEN [fs |-> fsys, rows |-> rws, rep |-> rep]
    ELSE LET row == Head(changed).v
             one == SaveOne(fsys, rws, row, rep,
                            write_info_tip(fsys[row.path], row.current_remark, "none"))
         IN  SaveLoop(one.fs, one.rows, Tail(changed), one.rep)

----------------------------------------------------------------------------
\* core/single_instance.py: the rendezvous endpoint and the bytes on it;
\* ui/main_window.py: handle_external_path.

\* The processes started on the machine.
Procs == {"p1", "p2", "p3"}

\* The text a process forwards: "E" stands for a character outside ASCII
\* (U+00E9), which UTF-8 spells in two bytes; "S" for a lone surrogate, which
\* a Windows file name and a Python str can hold and UTF-8 cannot spell.
Payloads ==
    {<< >>, <<" ">>, <<"a">>, <<" ", "a">>, <<"a", "E">>, <<"S">>}

\* str.encode("utf-8"): ok is FALSE for UnicodeEncodeError.
RECURSIVE Encode(_)
Encode(s) ==
    IF s = << >> THEN [ok |-> TRUE, b |-> << >>]
    ELSE IF Head(s) = "S" THEN [ok |-> FALSE, b |-> << >>]
    ELSE LET rest == Encode(Tail(s))
             first == CASE Head(s) = "a" -> <<97>>
                        [] Head(s) = " " -> <<32>>
                        [] Head(s) = "E" -> <<195, 169>>
         IN  [ok |-> rest.ok, b |-> IF rest.ok THEN first \o rest.b ELSE << >>]

\* bytes.decode("utf-8"): ok is FALSE for UnicodeDecodeError.
RECURSIVE Decode(_)
Decode(b) ==
    IF b = << >> THEN [ok |-> TRUE, v |-> << >>]
    ELSE IF Head(b) = 97 \/ Head(b) = 32
    THEN LET rest == Decode(Tail(b))
         IN  [ok |-> rest.ok, v |-> <<IF Head(b) = 97 THEN "a" ELSE " ">> \o rest.v]
    ELSE IF Head(b) = 195 /\ Len(b) >= 2 /\ b[2] = 169
    THEN LET rest == Decode(Tail(Tail(b)))
         IN  [ok |-> rest.ok, v |-> <<"E">> \o rest.v]
    ELSE [ok |-> FALSE, v |-> << >>]

\* conn.recv(4096)
RECV_BUFSIZE == 4096

\* sock.listen(5)
LISTEN_BACKLOG == 5

FreePort == [owner |-> "none", listening |-> FALSE, backlog |-> << >>]

NoConn == [state |-> "none", sent |-> << >>, arrived |-> 0, fin |-> FALSE]

\* A process before main() runs: where it is, what it forwards and how
\* that went, what held the address at its bind, the state of its accept
\* thread, and how often it bound and connected.
NewProc ==
    [pc |-> "new", payload |-> << >>, saw |-> "none", sent |-> FALSE,
     raised |-> "", connected |-> FALSE, wrote |-> FALSE,
     loop |-> "none", binds |-> 0, sends |-> 0]

\* A bind that takes the address whoever holds it.
bind_shared(prt, p) == [ok |-> TRUE, port |-> [prt EXCEPT !.owner = p]]

\* sock.bind((host, port)) with SO_EXCLUSIVEADDRUSE: OSError while another
\* socket holds the address.
bind(prt, p) ==
    IF prt.owner = "none"
    THEN [ok |-> TRUE, port |-> [prt EXCEPT !.owner = p]]
    ELSE [ok |-> FALSE, port |-> prt]

\* A try block that hands the decoded bytes to the handler as they are.
Received_raw(data) ==
    LET d == Decode(data)
    IN  IF d.ok THEN <<d.v>> ELSE << >>

\* The try block of _run for the bytes one recv returned: the payload the
\* handler is called with, or no call.
Received(data) ==
    LET d == Decode(data)
        payload == Strip(d.v)
    IN  IF d.ok /\ payload # << >> THEN <<payload>> ELSE << >>

\* What goes wrong in a call of the system or of Tk: nothing, or the named
\* call raises.
SendFaults == {"none", "connect", "sendall"}
PassFaults == {"none", "recv", "handler"}

\* send_payload(payload): one create_connection, which fails when nothing
\* listens, when the queue is full or on timeout; then encode and sendall
\* inside the with block; OSError gives False, anything else leaves the call.
send_payload(prt, payload, fault) ==
    LET enc == Encode(payload)
        failed == [ret |-> FALSE, err |-> "", attempts |-> 1, connected |-> FALSE,
                   wrote |-> FALSE, conn |-> NoConn]
        opened == [NoConn EXCEPT !.state = "open"]
    IN  IF ~prt.listening \/ Len(prt.backlog) >= LISTEN_BACKLOG \/ fault = "connect"
        THEN failed
        ELSE IF ~enc.ok
        THEN [failed EXCEPT !.err = "UnicodeEncodeError", !.connected = TRUE,
                            !.conn = opened]
        ELSE IF fault = "sendall"
        THEN [failed EXCEPT !.connected = TRUE, !.conn = opened]
        ELSE [ret |-> TRUE, err |-> "", attempts |-> 1, connected |-> TRUE,
              wrote |-> TRUE, conn |-> [opened EXCEPT !.sent = enc.b]]

\* A main() that starts over when the forward failed.
main_after_forward_retry(ret) == IF ret THEN "done" ELSE "new"

\* main(), lines 48-57: after send_payload the process returns, whatever
\* send_payload returned.
main_after_forward(ret) == "done"

\* The directory a forwarded path names when it names one that exists.
DirectoryPath == <<"a">>

\* Path(target_text).exists()
PathExists(text) == text = DirectoryPath

\* A Tk that runs the task scheduled last first.
after_front(tq, job) == <<job>> \o tq

\* self.after(0, _process): Tk runs the tasks in the order scheduled.
after(tq, job) == Append(tq, job)

\* A _process that reloads the directory and puts the edited entries back.
process_path_keep(ui, fsys, payload) ==
    LET target_text == Strip(payload)
    IN  IF target_text = << >> \/ ~PathExists(target_text) THEN ui
        ELSE LET ld == load_directory(fsys)
             IN  [rows |-> DictUpdate(ld.rows, Changed(ui.rows)),
                  table |-> ld.table, loaded |-> TRUE]

\* handle_external_path._process: a payload that is not blank and names a
\* path that exists makes the window load that directory.
process_path(ui, fsys, payload) ==
    LET target_text == Strip(payload)
    IN  IF target_text = << >> \/ ~PathExists(target_text) THEN ui
        ELSE LET ld == load_directory(fsys)
             IN  [rows |-> ld.rows, table |-> ld.table, loaded |-> TRUE]

\* A handler that opens the directory itself, on the thread that calls it.
handle_external_path_direct(tq, ui, fsys, job) ==
    [tasks |-> tq, ui |-> process_path(ui, fsys, job.payload)]

\* handle_external_path(payload): schedules _process, touches nothing else.
handle_external_path(tq, ui, fsys, job) == [tasks |-> after(tq, job), ui |-> ui]

\* A loop of _run without the try around a connection: an error ends it.
Pass_unguarded(c, data, fault, tq, ui, fsys) ==
    LET called == fault # "recv" /\ Received(data) # << >>
        error == IF fault = "recv" THEN "recv"
                 ELSE IF ~Decode(data).ok THEN "decode"
                 ELSE IF called /\ fault = "handler" THEN "handler"
                 ELSE ""
        h == handle_external_path(tq, ui, fsys, [conn |-> c, payload |-> Received(data)[1]])
    IN  [error |-> error, called |-> called,
         arg |-> IF called THEN Received(data)[1] ELSE << >>,
         tasks |-> IF called /\ error = "" THEN h.tasks ELSE tq,
         ui |-> IF called /\ error = "" THEN h.ui ELSE ui,
         closed |-> TRUE,
         loop |-> IF error = "" THEN "running" ELSE "ended"]

\* A loop of _run that closes the connection at the end of the try block
\* and not in a finally: an error leaves it open.
Pass_leak(c, data, fault, tq, ui, fsys) ==
    LET called == fault # "recv" /\ Received(data) # << >>
        error == IF fault = "recv" THEN "recv"
                 ELSE IF ~Decode(data).ok THEN "decode"
                 ELSE IF called /\ fault = "handler" THEN "handler"
                 ELSE ""
        h == handle_external_path(tq, ui, fsys, [conn |-> c, payload |-> Received(data)[1]])
    IN  [error |-> error, called |-> called,
         arg |-> IF called THEN Received(data)[1] ELSE << >>,
         tasks |-> IF called /\ error = "" THEN h.tasks ELSE tq,
         ui |-> IF called /\ error = "" THEN h.ui ELSE ui,
         closed |-> error = "",
         loop |-> "running"]

\* One pass of the loop of _run after accept, lines 70-84: recv, decode,
\* strip, the handler for a payload that is not empty; an exception of any
\* of them is logged; the connection is closed and the loop goes on.
Pass(c, data, fault, tq, ui, fsys) ==
    LET called == fault # "recv" /\ Received(data) # << >>
        error == IF fault = "recv" THEN "recv"
                 ELSE IF ~Decode(data).ok THEN "decode"
                 ELSE IF called /\ fault = "handler" THEN "handler"
                 ELSE ""
        h == handle_external_path(tq, ui, fsys, [conn |-> c, payload |-> Received(data)[1]])
    IN  [error |-> error, called |-> called,
         arg |-> IF called THEN Received(data)[1] ELSE << >>,
         tasks |-> IF called /\ error = "" THEN h.tasks ELSE tq,
         ui |-> IF called /\ error = "" THEN h.ui ELSE ui,
         closed |-> TRUE,
         loop |-> "running"]

----------------------------------------------------------------------------
\* State.

VARIABLES
    fs,         \* the folders on disk: folder -> [exists, attrs, ini]
    last,       \* the engine call made last, with what it saw and did
    rows,       \* MainApp.rows_by_path: path -> FolderRemark
    table,      \* MainApp.table: the displayed rows, in display order
    loaded,     \* MainApp.current_path is set
    report,     \* what the last _save_changes attempted and listed
    sort_directions,    \* MainApp.sort_directions: column -> ascending next
    procs,      \* each process: where it is in main(), what it forwards
    port,       \* the rendezvous address: its holder, the accept queue
    conns,      \* the connection each process opened: bytes sent, arrived
    handled,    \* the calls of the handler: [conn, arg], in order
    passes,     \* the connections accepted, in order, and how each pass went
    tasks,      \* the _process tasks Tk holds for the main loop, in order
    processed   \* the tasks the main loop has run, in order, each with the
                \* paths whose entries were edited and unsaved when it ran

engineVars == <<fs, last>>
uiVars == <<rows, table, loaded, report, sort_directions>>
netVars == <<procs, port, conns, handled, passes, tasks, processed>>
vars ==
    <<fs, last, rows, table, loaded, report, sort_directions,
      procs, port, conns, handled, passes, tasks, processed>>

\* The folder the engine specification calls the service on.
EngineFolder == "f1"

NoCall ==
    [op |-> "none", folder |-> "", remark |-> << >>, err |-> "",
     value |-> << >>, pre |-> [exists |-> FALSE, attrs |-> 0, ini |-> NoFile],
     calls |-> << >>, rep |-> FALSE, afterWrite |-> FALSE, written |-> << >>,
     env |-> "none", configured |-> {}]

\* Sidecar contents found on disk, written by the shell, by other tools or
\* by hand: the lines a .ShellClassInfo section holds,
OptionLines ==
    {KvLine("InfoTip", <<"a">>), KvLine("infotip", <<"a">>), KvLine("infotip", <<"%">>),
     KvLine("IconResource", <<"a">>), KvLine("IconResource", <<"%">>), JunkLine}

NoRepeatedKey(b) ==
    \A i, j \in 1..Len(b) : (i # j /\ b[i].t = "kv" /\ b[j].t = "kv") => b[i].k # b[j].k

SectionBodies == {b \in SeqsUpTo(OptionLines, 2) : NoRepeatedKey(b)}

ForeignTexts ==
    \* the shell's section alone
    {<<SecLine(SECTION)>> \o b : b \in SectionBodies}
    \cup
    \* followed by another section, empty or not
    {<<SecLine(SECTION)>> \o b \o post :
        b \in {<< >>, <<KvLine("InfoTip", <<"a">>)>>},
        post \in {<<SecLine("Other")>>,
                  <<SecLine("Other"), KvLine("IconResource", <<"a">>)>>}}
    \cup
    \* something before it: a DEFAULT section, or lines under no section
    {pre \o sci :
        pre \in {<<SecLine(DEFAULTSECT), KvLine("InfoTip", <<"a">>)>>,
                 <<SecLine(DEFAULTSECT), KvLine("IconResource", <<"a">>)>>,
                 <<JunkLine>>,
                 <<KvLine("InfoTip", <<"a">>)>>},
        sci \in {<< >>, <<SecLine(SECTION), KvLine("infotip", <<"a">>)>>}}
    \cup {<< >>}

SampleText == <<SecLine(SECTION), KvLine("InfoTip", <<"a">>), KvLine("IconResource", <<"a">>)>>

HiddenSystem == BitOr(FILE_ATTRIBUTE_HIDDEN, FILE_ATTRIBUTE_SYSTEM)

ForeignFiles ==
    {[present |-> TRUE, enc |-> "utf-16", text |-> t, attrs |-> 0] : t \in ForeignTexts}
    \cup
    {[present |-> TRUE, enc |-> "utf-16", text |-> SampleText, attrs |-> a] :
        a \in {FILE_ATTRIBUTE_HIDDEN, HiddenSystem}}
    \cup
    {[present |-> TRUE, enc |-> e, text |-> SampleText, attrs |-> HiddenSystem] :
        e \in {"utf-8-sig", "mbcs"}}
    \cup
    {[present |-> TRUE, enc |-> "binary", text |-> << >>, attrs |-> 0]}

PlainFolder == [exists |-> TRUE, attrs |-> 1, ini |-> NoFile]
MissingFolder == [exists |-> FALSE, attrs |-> 0, ini |-> NoFile]

\* The folder the engine is called on: not there; there with another
\* attribute bit (1, read-only) and any sidecar; there with the system bit.
EngineFolderStates ==
    {[exists |-> TRUE, attrs |-> 1, ini |-> f] : f \in ForeignFiles \cup {NoFile}}
    \cup
    {[exists |-> TRUE, attrs |-> FILE_ATTRIBUTE_SYSTEM, ini |-> f] :
        f \in {NoFile, [present |-> TRUE, enc |-> "utf-16", text |-> SampleText,
                        attrs |-> HiddenSystem]}}
    \cup {MissingFolder}

\* The window before a directory is loaded.
UiIdle ==
    /\ rows = << >>
    /\ table = << >>
    /\ loaded = FALSE
    /\ report = NoReport
    /\ sort_directions = [c \in SortColumns |-> TRUE]

\* No process started.
NetIdle ==
    /\ procs = [p \in Procs |-> NewProc]
    /\ port = FreePort
    /\ conns = [p \in Procs |-> NoConn]
    /\ handled = << >>
    /\ passes = << >>
    /\ tasks = << >>
    /\ processed = << >>

Init ==
    /\ \E st \in EngineFolderStates :
          fs = [f \in Folders |-> IF f = EngineFolder THEN st ELSE PlainFolder]
    /\ last = NoCall
    /\ UiIdle
    /\ NetIdle

----------------------------------------------------------------------------
\* The engine's operations, called on one folder.

\* service.write_info_tip(folder, remark)
WriteRemark(f, r, env) ==
    \E res \in {write_info_tip(fs[f], r, env)} :
        /\ fs' = [fs EXCEPT ![f] = res.fo]
        /\ last' = [op |-> "write", folder |-> f, remark |-> r,
                    err |-> res.err, value |-> << >>, pre |-> fs[f],
                    calls |-> res.calls,
                    rep |-> (last.op = "write" /\ last.folder = f /\ last.remark = r),
                    afterWrite |-> FALSE, written |-> << >>, env |-> env,
                    configured |-> {}]
        /\ UNCHANGED <<uiVars, netVars>>

\* service.read_info_tip(folder)
ReadRemark(f) ==
    \E res \in {read_info_tip(fs[f])} :
        /\ last' = [op |-> "read", folder |-> f, remark |-> << >>,
                    err |-> res.err, value |-> res.value, pre |-> fs[f],
                    calls |-> << >>, rep |-> FALSE,
                    afterWrite |-> (last.op = "write" /\ last.err = "" /\ last.folder = f),
                    written |-> IF last.op = "write" /\ last.err = "" /\ last.folder = f
                                THEN last.remark ELSE << >>,
                    env |-> "none", configured |-> {}]
        /\ UNCHANGED <<fs, uiVars, netVars>>

\* No Win32 call fails.
Write == \E r \in Remarks : WriteRemark(EngineFolder, r, "none")

Read == ReadRemark(EngineFolder)

Next == Write \/ Read

Spec == Init /\ [][Next]_vars

\* The remarks written while a Win32 call may fail.
FaultRemarks == {<< >>, <<"a">>}

\* write_info_tip while the Win32 call env names, if the write makes it,
\* reports failure: GetFileAttributesW returns INVALID_FILE_ATTRIBUTES,
\* SetFileAttributesW returns 0.
WriteUnderFault ==
    \E r \in FaultRemarks, env \in WinCalls : WriteRemark(EngineFolder, r, env)

NextFaults == WriteUnderFault \/ Read

SpecFaults == Init /\ [][NextFaults]_vars

----------------------------------------------------------------------------
\* The main window on one directory.

\* The remarks the user types into a row.
EditedRemarks == {<< >>, <<"a">>, <<"%">>}

\* The sidecar the engine writes for the remark "a".
EngineText == <<SecLine(SECTION), KvLine("InfoTip", <<" ", "a">>), BlankLine>>

\* A sidecar the shell wrote: an icon whose path names an environment
\* variable with percent signs.
ShellText == <<SecLine(SECTION), KvLine("IconResource", <<"%">>)>>

RemarkedFolder ==
    [exists |-> TRUE, attrs |-> FILE_ATTRIBUTE_SYSTEM,
     ini |-> [present |-> TRUE, enc |-> "utf-16", text |-> EngineText,
              attrs |-> HiddenSystem]]

CustomisedFolder ==
    [exists |-> TRUE, attrs |-> FILE_ATTRIBUTE_SYSTEM,
     ini |-> [present |-> TRUE, enc |-> "utf-16", text |-> ShellText,
              attrs |-> HiddenSystem]]

InitUI ==
    /\ \E third \in {PlainFolder, CustomisedFolder} :
          fs = [f \in Folders |->
                    CASE f = "f1" -> PlainFolder
                      [] f = "f2" -> RemarkedFolder
                      [] OTHER -> third]
    /\ last = NoCall
    /\ UiIdle
    /\ NetIdle

\* _load_directory(path), as the tree selection and _refresh_current call it.
LoadDirectory ==
    \E ld \in {load_directory(fs)} :
        /\ rows' = ld.rows
        /\ table' = ld.table
        /\ loaded' = TRUE
        /\ report' = NoReport
        /\ UNCHANGED <<sort_directions, engineVars, netVars>>

\* _set_remark_for_paths(paths, remark): the edit of one row or of several.
EditRemark ==
    \E paths \in SUBSET Folders \ {{}}, remark \in EditedRemarks :
        \E res \in {sync_remark_to_rows(table, rows, paths, remark)} :
            /\ loaded
            /\ rows' = res.rows
            /\ table' = res.table
            /\ report' = NoReport
            /\ UNCHANGED <<loaded, sort_directions, engineVars, netVars>>

\* _save_changes(): nothing edited, nothing done; otherwise the write loop,
\* the report and the reload of the directory.
SaveChanges ==
    \E changed \in {Changed(rows)} :
        IF changed = << >>
        THEN /\ report' = NoReport
             /\ UNCHANGED <<rows, table, loaded, sort_directions, engineVars, netVars>>
        ELSE \E out \in {SaveLoop(fs, rows, changed, NoReport)} :
             \E ld \in {load_directory(out.fs)} :
                /\ fs' = out.fs
                /\ report' = [out.rep EXCEPT !.changed = DictKeys(changed),
                                             !.before = rows]
                /\ rows' = IF loaded THEN ld.rows ELSE out.rows
                /\ table' = IF loaded THEN ld.table ELSE table
                /\ UNCHANGED <<loaded, sort_directions, last, netVars>>

\* Another program deletes a folder, its sidecar with it.
ExternalDelete ==
    \E f \in Folders :
        /\ fs[f].exists
        /\ fs' = [fs EXCEPT ![f] = MissingFolder]
        /\ report' = NoReport
        /\ UNCHANGED <<last, rows, table, loaded, sort_directions, netVars>>

NextUI == LoadDirectory \/ EditRemark \/ SaveChanges \/ ExternalDelete

SpecUI == InitUI /\ [][NextUI]_vars

----------------------------------------------------------------------------
\* The main window on a directory that holds a folder of the system.

\* The sidecar Windows gives a folder such as Documents: the remark names a
\* string resource, "@%SystemRoot%\system32\shell32.dll,-12688".
LocalizedText == <<SecLine(SECTION), KvLine("InfoTip", <<"%">>)>>

LocalizedFolder ==
    [exists |-> TRUE, attrs |-> FILE_ATTRIBUTE_SYSTEM,
     ini |-> [present |-> TRUE, enc |-> "utf-16", text |-> LocalizedText,
              attrs |-> HiddenSystem]]

InitLoad ==
    /\ \E second \in {RemarkedFolder, LocalizedFolder},
          third \in {PlainFolder, RemarkedFolder} :
          fs = [f \in Folders |->
                    CASE f = "f1" -> PlainFolder
                      [] f = "f2" -> second
                      [] OTHER -> third]
    /\ last = NoCall
    /\ UiIdle
    /\ NetIdle

SpecLoad == InitLoad /\ [][NextUI]_vars

----------------------------------------------------------------------------
\* The main window with its table sorted and edited through the mapping
\* dialog.

\* The remarks a line "name->remark" of the mapping gives.
MappingRemarks == {<< >>, <<"a">>}

\* The mappings the user applies to the selected rows: a remark for each
\* name the dialog listed, or for every name, listed or not.
Mappings(listed) ==
    UNION {[names -> MappingRemarks] : names \in {listed, Folders}}

\* The directory the window shows: one folder with a remark, two without.
InitView ==
    /\ fs = [f \in Folders |-> IF f = "f2" THEN RemarkedFolder ELSE PlainFolder]
    /\ last = NoCall
    /\ UiIdle
    /\ NetIdle

\* The headings the user clicks: the paths of one directory are in the
\* order of the names, so the third heading sorts as the first does.
ClickedColumns == {"name", "remark"}

\* _sort_by_column(column): a click on a heading.
SortByColumn ==
    \E column \in ClickedColumns :
        \E res \in {sort_by_column(table, column, sort_directions)} :
            /\ table' = res.table
            /\ sort_directions' = res.sort_directions
            /\ report' = NoReport
            /\ UNCHANGED <<rows, loaded, engineVars, netVars>>

\* _bulk_mapping_dialog(): the selected rows as the dialog lists them, and
\* apply_callback with the mapping the user typed.
BulkMappingEdit ==
    \E selected \in SUBSET {table[i].path : i \in 1..Len(table)} \ {{}} :
      \E mapping_dict \in Mappings({table[i].name : i \in
                             {j \in 1..Len(table) : table[j].path \in selected}}) :
        LET chosen == {i \in 1..Len(table) : table[i].path \in selected}
            name_to_info ==
                [name \in {table[i].name : i \in chosen} |->
                    LET i == CHOOSE j \in chosen : table[j].name = name
                    IN  [remark |-> table[i].remark, path |-> table[i].path]]
        IN  \E res \in {ApplyMapping(table, rows, PathOrder, name_to_info,
                                      mapping_dict)} :
                /\ rows' = res.rows
                /\ table' = res.table
                /\ report' = NoReport
                /\ UNCHANGED <<loaded, sort_directions, engineVars, netVars>>

\* _on_table_double_click(event) on the remark cell of a row, the dialog
\* answered with a remark.
SingleEdit ==
    /\ loaded
    /\ \E i \in 1..Len(table), new_remark \in EditedRemarks :
        \E res \in {sync_remark_to_rows(table, rows, {table[i].path}, new_remark)} :
            /\ rows' = res.rows
            /\ table' = res.table
            /\ report' = NoReport
            /\ UNCHANGED <<loaded, sort_directions, engineVars, netVars>>

NextView ==
    LoadDirectory \/ SingleEdit \/ BulkMappingEdit \/ SortByColumn \/ SaveChanges

SpecView == InitView /\ [][NextView]_vars

----------------------------------------------------------------------------
\* Listing a directory whose entries have the names of EntryNames.

\* The entries of the directory: at most one casing of each name.
Directories ==
    {S \in SUBSET EntryNames : \A a, b \in S : Lower(a) = Lower(b) => a = b}

\* The skip sets a service is made with.
SkipConfigs ==
    {DEFAULT_SKIP_NAMES, {}, {"Temp"}, {"TEMP", "$recycle.bin"},
     {"temp", "$Recycle.Bin", "SYSTEM VOLUME INFORMATION"}}

InitList ==
    /\ \E S \in Directories : fs = [n \in S |-> PlainFolder]
    /\ last = NoCall
    /\ UiIdle
    /\ NetIdle

\* DesktopIniService(configured).list_subfolders(parent)
ListSubfolders ==
    \E configured \in SkipConfigs :
        /\ last' = [NoCall EXCEPT
                       !.op = "list",
                       !.configured = configured,
                       !.value = scan_subfolders(init_skip_names(configured), fs)]
        /\ UNCHANGED <<fs, uiVars, netVars>>

NextList == ListSubfolders \/ LoadDirectory

SpecList == InitList /\ [][NextList]_vars

----------------------------------------------------------------------------
\* The processes and the rendezvous endpoint.

Min(a, b) == IF a < b THEN a ELSE b

InitNet ==
    /\ fs = [f \in Folders |-> PlainFolder]
    /\ last = NoCall
    /\ UiIdle
    /\ NetIdle

\* The window's state, as handle_external_path and _process see it.
Ui == [rows |-> rows, table |-> table, loaded |-> loaded]

\* main(), lines 46-48: instance.try_bind().  The process that binds also
\* listens; the one whose bind raises OSError closes its socket.
TryBind(p) ==
    /\ procs[p].pc = "new"
    /\ \E res \in {bind(port, p)} :
          /\ port' = IF res.ok THEN [res.port EXCEPT !.listening = TRUE] ELSE port
          /\ procs' = [procs EXCEPT ![p] = [@ EXCEPT
                          !.pc = IF res.ok THEN "primary" ELSE "secondary",
                          !.saw = port.owner,
                          !.binds = @ + 1]]
    /\ UNCHANGED <<conns, handled, passes, tasks, processed, engineVars, uiVars>>

\* main(), lines 59-62: the window is built, start_accepting starts the
\* thread that runs _run, and the main loop runs.
StartAccepting(p) ==
    /\ procs[p].pc = "primary"
    /\ procs' = [procs EXCEPT ![p] = [@ EXCEPT !.pc = "accepting", !.loop = "running"]]
    /\ UNCHANGED <<port, conns, handled, passes, tasks, processed, engineVars, uiVars>>

\* main(), lines 48-57: send_payload(payload) and return.  The bytes
\* written are handed to the transport and the with block closes the socket.
SendPayload(p) ==
    /\ procs[p].pc = "secondary"
    /\ \E payload \in Payloads, fault \in SendFaults :
       \E res \in {send_payload(port, payload, fault)} :
          /\ conns' = [conns EXCEPT ![p] = res.conn]
          /\ port' = IF res.connected
                     THEN [port EXCEPT !.backlog = Append(@, p)] ELSE port
          /\ procs' = [procs EXCEPT ![p] = [@ EXCEPT
                          !.pc = main_after_forward(res.ret),
                          !.payload = payload,
                          !.sent = res.ret,
                          !.raised = res.err,
                          !.connected = res.connected,
                          !.wrote = res.wrote,
                          !.sends = @ + res.attempts]]
    /\ UNCHANGED <<handled, passes, tasks, processed, engineVars, uiVars>>

\* The transport delivers the next bytes of a connection to the receiver.
Deliver(p) ==
    /\ conns[p].state = "open"
    /\ conns[p].arrived < Len(conns[p].sent)
    /\ \E k \in 1..(Len(conns[p].sent) - conns[p].arrived) :
          conns' = [conns EXCEPT ![p].arrived = @ + k]
    /\ UNCHANGED <<procs, port, handled, passes, tasks, processed, engineVars, uiVars>>

\* After the last byte, the sender's close arrives.
DeliverFin(p) ==
    /\ conns[p].state = "open"
    /\ conns[p].arrived = Len(conns[p].sent)
    /\ ~conns[p].fin
    /\ conns' = [conns EXCEPT ![p].fin = TRUE]
    /\ UNCHANGED <<procs, port, handled, passes, tasks, processed, engineVars, uiVars>>

\* One pass of the loop of _run: accept, one recv (which returns when bytes
\* have arrived or the sender has closed, or raises), decode, strip, the
\* handler for a payload that is not empty, close.
Serve(q) ==
    /\ procs[q].loop = "running"
    /\ port.owner = q
    /\ port.backlog # << >>
    /\ \E c \in {Head(port.backlog)}, fault \in PassFaults :
          /\ fault = "recv" \/ conns[c].arrived > 0 \/ conns[c].fin
          /\ \E res \in {Pass(c, SubSeq(conns[c].sent, 1,
                                        Min(conns[c].arrived, RECV_BUFSIZE)),
                              fault, tasks, Ui, fs)} :
                /\ handled' = IF res.called
                              THEN Append(handled, [conn |-> c, arg |-> res.arg])
                              ELSE handled
                /\ passes' = Append(passes, [conn |-> c, by |-> q, error |-> res.error,
                                             called |-> res.called])
                /\ tasks' = res.tasks
                /\ rows' = res.ui.rows
                /\ table' = res.ui.table
                /\ loaded' = res.ui.loaded
                /\ procs' = [procs EXCEPT ![q].loop = res.loop]
                /\ conns' = IF res.closed
                            THEN [conns EXCEPT ![c].state = "closed"] ELSE conns
          /\ port' = [port EXCEPT !.backlog = Tail(@)]
    /\ UNCHANGED <<processed, report, sort_directions, engineVars>>

\* _run, lines 65-68: accept raises OSError while the socket is open (the
\* peer reset the connection before the accept, no handle or buffer left):
\* break.
AcceptFails(q) ==
    /\ procs[q].loop = "running"
    /\ port.owner = q
    /\ procs' = [procs EXCEPT ![q].loop = "ended"]
    /\ UNCHANGED <<port, conns, handled, passes, tasks, processed, engineVars, uiVars>>

\* The main loop runs the task Tk holds first: _process.
ProcessTask(q) ==
    /\ procs[q].pc = "accepting"
    /\ port.owner = q
    /\ tasks # << >>
    /\ \E ui \in {process_path(Ui, fs, Head(tasks).payload)} :
          /\ rows' = ui.rows
          /\ table' = ui.table
          /\ loaded' = ui.loaded
    /\ processed' = Append(processed, [conn |-> Head(tasks).conn,
                                        payload |-> Head(tasks).payload,
                                        dirty |-> DictKeys(Changed(rows))])
    /\ tasks' = Tail(tasks)
    /\ UNCHANGED <<procs, port, conns, handled, passes, report, sort_directions,
                   engineVars>>

\* The user closes the window of the process that holds the address: the
\* process ends, the system closes its sockets.
Exit(q) ==
    /\ procs[q].pc \in {"primary", "accepting"}
    /\ procs' = [procs EXCEPT ![q] = [@ EXCEPT
                    !.pc = "exited",
                    !.loop = IF @ = "none" THEN "none" ELSE "ended"]]
    /\ conns' = [c \in Procs |->
                    IF \E i \in 1..Len(port.backlog) : port.backlog[i] = c
                    THEN [conns[c] EXCEPT !.state = "reset"]
                    ELSE conns[c]]
    /\ port' = FreePort
    /\ tasks' = << >>
    /\ rows' = << >>
    /\ table' = << >>
    /\ loaded' = FALSE
    /\ sort_directions' = [c \in SortColumns |-> TRUE]
    /\ UNCHANGED <<handled, passes, processed, report, engineVars>>

NextNet ==
    \E p \in Procs :
        \/ TryBind(p)
        \/ StartAccepting(p)
        \/ SendPayload(p)
        \/ Deliver(p)
        \/ DeliverFin(p)
        \/ Serve(p)
        \/ AcceptFails(p)
        \/ ProcessTask(p)
        \/ Exit(p)

SpecNet == InitNet /\ [][NextNet]_vars

\* The window of the Primary in use while a second process forwards a path:
\* two processes, and the user loading the directory and editing remarks.
ForwardProcs == {"p1", "p2"}

WindowOpen == \E q \in Procs : procs[q].pc = "accepting"

NextForward ==
    \/ WindowOpen /\ LoadDirectory
    \/ WindowOpen /\ EditRemark
    \/ \E p \in ForwardProcs :
          \/ TryBind(p)
          \/ StartAccepting(p)
          \/ SendPayload(p)
          \/ Deliver(p)
          \/ DeliverFin(p)
          \/ Serve(p)
          \/ ProcessTask(p)

SpecForward == InitLoad /\ [][NextForward]_vars

\* send_payload returns: create_connection has a timeout of one second and
\* main() has nothing else to wait for.
SpecNetFair == SpecNet /\ \A p \in Procs : WF_vars(SendPayload(p))

----------------------------------------------------------------------------
\* Properties of the persistence engine.

\* The number of keys of a document, DEFAULT's included.
RECURSIVE CountOpts(_)
CountOpts(secs) == IF secs = << >> THEN 0 ELSE Len(Head(secs).opts) + CountOpts(Tail(secs))

KeyCount(p) == Len(p.defaults) + CountOpts(p.sections)

\* The document holds nothing but casings of InfoTip in .ShellClassInfo.
OnlyInfoTip(p) ==
    /\ p.defaults = << >>
    /\ Sections(p) = <<SECTION>>
    /\ SectionOpts(p, SECTION) # << >>
    /\ \A i \in 1..Len(SectionOpts(p, SECTION)) :
          Lower(SectionOpts(p, SECTION)[i].k) = "infotip"

\* C1: a read that directly follows a successful write of remark r to the
\* same folder returns r, whatever the sidecar held before the write.
C1_RoundTrip ==
    (last.op = "read" /\ last.afterWrite) => (last.err = "" /\ last.value = last.written)

\* C6: after a successful write of the empty remark no sidecar without any
\* key is on disk: a sidecar that is there holds at least one key.
C6_NoEmptySidecar ==
    (last.op = "write" /\ last.err = "" /\ last.remark = << >>
        /\ fs[last.folder].ini.present)
    => KeyCount(safe_read_config(fs[last.folder].ini)) > 0

\* C7: a write of the empty remark to a folder whose sidecar holds only
\* InfoTip keys, in any casing, under .ShellClassInfo returns, deletes the
\* sidecar and writes no file.
C7_ClearDeletesSidecar ==
    (last.op = "write" /\ last.remark = << >> /\ last.pre.exists
        /\ last.pre.ini.present /\ OnlyInfoTip(safe_read_config(last.pre.ini)))
    => /\ last.err = ""
       /\ ~fs[last.folder].ini.present
       /\ \A i \in 1..Len(last.calls) : last.calls[i] # "open_w"
       /\ \E i \in 1..Len(last.calls) : last.calls[i] = "unlink"

C7_Witness ==
    /\ last.op = "write" /\ last.err = "" /\ last.remark = << >>
    /\ last.pre.ini.present /\ OnlyInfoTip(safe_read_config(last.pre.ini))
    /\ SectionOpts(safe_read_config(last.pre.ini), SECTION)[1].k = "infotip"
    /\ ~fs[last.folder].ini.present

\* C8: a write that repeats the write before it (same folder, same remark)
\* leaves the folder as the first write left it: sidecar existence, sidecar
\* bytes, and the attributes of folder and sidecar.
C8_Idempotent ==
    (last.op = "write" /\ last.rep) => fs[last.folder] = last.pre

C8_Witness ==
    /\ last.op = "write" /\ last.rep /\ last.err = "" /\ last.remark = <<"a">>
    /\ fs[last.folder].ini.present
    /\ Len(fs[last.folder].ini.text) > 3

\* C9: a write to a folder that does not exist raises FileNotFoundError,
\* makes no file-system call after the existence check and changes nothing.
C9_MissingFolder ==
    (last.op = "write" /\ ~last.pre.exists)
    => /\ last.err = "FileNotFoundError"
       /\ last.calls = << >>
       /\ fs[last.folder] = last.pre

C9_Witness == last.op = "write" /\ ~last.pre.exists /\ last.remark = <<"a">>

\* C10: a read raises nothing, whatever the sidecar holds.
C10_ReadNeverRaises == last.op = "read" => last.err = ""

----------------------------------------------------------------------------
\* Properties of the batch save.

RECURSIVE Occurrences(_, _)
Occurrences(seq, x) ==
    IF seq = << >> THEN 0
    ELSE (IF Head(seq) = x THEN 1 ELSE 0) + Occurrences(Tail(seq), x)

FailedNames(rep) == [i \in 1..Len(rep.failed) |-> rep.failed[i][1]]

\* C4: a save writes every entry that was dirty when it started exactly
\* once, in order, whatever the earlier writes did; every such entry is in
\* exactly one of the success list and the failure list, so the two lists
\* together are as long as the set of dirty entries.
C4_BatchIndependence ==
    report.changed # << >>
    => /\ report.changed = DictKeys(Changed(report.before))
       /\ report.attempts = report.changed
       /\ \A i \in 1..Len(report.changed) :
             Occurrences(report.success, report.changed[i])
               + Occurrences(FailedNames(report), report.changed[i]) = 1
       /\ Len(report.success) + Len(report.failed) = Len(report.changed)

C4_Witness ==
    /\ Len(report.changed) = 3
    /\ report.failed # << >>
    /\ report.failed[1][1] = report.changed[1]
    /\ Len(report.success) = 2

\* C5: when a save is over, an entry it wrote is clean and an entry whose
\* write failed is still in the map with the original and the edited remark
\* it had when the save started.
C5_DirtyAfterSave ==
    report.changed # << >>
    => /\ \A i \in 1..Len(report.success) :
             /\ DictHas(rows, report.success[i])
             /\ DictGet(rows, report.success[i]).original_remark
                  = DictGet(rows, report.success[i]).current_remark
       /\ \A i \in 1..Len(report.failed) :
             /\ DictHas(rows, report.failed[i][1])
             /\ DictGet(rows, report.failed[i][1])
                  = DictGet(report.before, report.failed[i][1])

----------------------------------------------------------------------------
\* Properties of the single-instance channel.

Live(p) == procs[p].pc \in {"primary", "accepting", "secondary"}

Primary(p) == procs[p].pc \in {"primary", "accepting"}

\* C2: at most one live process is Primary; the Primary holds the listening
\* address as long as it lives; a process is Secondary exactly when another
\* process held the address at its try_bind.
C2_MutualExclusion ==
    /\ Cardinality({p \in Procs : Primary(p)}) <= 1
    /\ \A p \in Procs : Primary(p) => (port.owner = p /\ port.listening)
    /\ \A p \in Procs :
          procs[p].pc # "new"
          => ((procs[p].saw # "none") <=> (procs[p].pc \in {"secondary", "done"}))

C2_Witness ==
    \E p, q \in Procs :
        /\ procs[p].pc = "accepting"
        /\ procs[q].pc = "secondary"
        /\ procs[q].saw = p

\* C3: once the Primary is done with the connection of a send_payload(p)
\* that returned True, with p not blank, the handler has been called exactly
\* once for that connection, with p stripped.
C3_Delivery ==
    \A p \in Procs :
        (conns[p].state = "closed" /\ procs[p].sent /\ Strip(procs[p].payload) # << >>)
        => /\ Cardinality({i \in 1..Len(handled) : handled[i].conn = p}) = 1
           /\ \A i \in 1..Len(handled) :
                 handled[i].conn = p => handled[i].arg = Strip(procs[p].payload)

\* C11: the text the handler gets for a connection is the decoding, then
\* stripped, of all the bytes the peer wrote before it closed, up to the
\* 4096 of the buffer, in however many segments the bytes arrived.
C11_WholeBody ==
    \A i \in 1..Len(handled) :
        LET body == conns[handled[i].conn].sent
        IN  handled[i].arg
              = Strip(Decode(SubSeq(body, 1, Min(Len(body), RECV_BUFSIZE))).v)

\* C12: a pass of the accept loop that ends in an error (of recv, of decode
\* or of the handler) closes the connection it served and nothing else: the
\* other connections, the accept queue behind it, the listening socket and
\* the loop itself are as before, so the loop accepts again.
C12_ErrorIsolation ==
    [][(Len(passes') = Len(passes) + 1 /\ passes'[Len(passes')].error # "")
       => LET c == passes'[Len(passes')].conn
          IN  /\ conns'[c].state = "closed"
              /\ \A d \in Procs \ {c} : conns'[d] = conns[d]
              /\ \A q \in Procs : procs'[q].loop = procs[q].loop
              /\ port'.owner = port.owner
              /\ port'.listening = port.listening
              /\ port'.backlog = Tail(port.backlog)]_vars

C12_Witness ==
    /\ Len(passes) = 2
    /\ passes[1].error = "handler"
    /\ passes[2].by = passes[1].by
    /\ passes[2].error = "" /\ passes[2].called
    /\ handled[Len(handled)].conn = passes[2].conn

\* C13: the accept loop has ended only when the listening socket of its
\* process is closed.
C13_LoopEndsWithSocket ==
    \A q \in Procs :
        procs[q].loop = "ended" => ~(port.owner = q /\ port.listening)

\* C14: a process whose bind failed is Secondary for good: it binds once,
\* connects at most once, starts no accept loop and no window, and has
\* returned from main() once send_payload was called, whatever it returned;
\* and it does return.
C14_SecondaryOnce ==
    \A p \in Procs :
        procs[p].saw # "none"
        => /\ procs[p].binds = 1
           /\ procs[p].sends <= 1
           /\ procs[p].loop = "none"
           /\ procs[p].pc \in {"secondary", "done"}
           /\ (procs[p].sends = 1 => procs[p].pc = "done")

C14_SecondaryTerminal ==
    /\ []C14_SecondaryOnce
    /\ \A p \in Procs : (procs[p].pc = "secondary") ~> (procs[p].pc = "done")

C14_Witness ==
    \E p, q \in Procs :
        /\ procs[p].pc = "done" /\ procs[p].sends = 1 /\ ~procs[p].sent
        /\ procs[q].pc = "done" /\ procs[q].sends = 1 /\ procs[q].sent

\* C15: a call of send_payload raises nothing, makes one connection attempt
\* and returns True exactly when the connect and the whole write succeeded.
C15_SendNeverRaises ==
    \A p \in Procs :
        procs[p].sends > 0
        => /\ procs[p].raised = ""
           /\ procs[p].sends = 1
           /\ procs[p].sent <=> (procs[p].connected /\ procs[p].wrote)

\* The place of a connection in the order of accepts.
AcceptIndex(c) == CHOOSE i \in 1..Len(passes) : passes[i].conn = c

\* C16: the forwarded paths the main loop has run, followed by those it
\* still holds, are in the order in which the accept loop accepted their
\* connections.
C16_AcceptOrder ==
    LET q == processed \o tasks
    IN  /\ \A i \in 1..Len(q) : \E j \in 1..Len(passes) : passes[j].conn = q[i].conn
        /\ \A i, j \in 1..Len(q) :
              i < j => AcceptIndex(q[i].conn) < AcceptIndex(q[j].conn)

C16_Witness ==
    /\ Len(processed) = 2
    /\ passes[1].conn = processed[1].conn
    /\ passes[2].conn = processed[2].conn
    /\ passes[1].by = passes[2].by

\* C17: a pass of the accept loop leaves rows_by_path, the table and the
\* current path as they are, and when it calls the handler the handler
\* schedules one task; the map changes only in a step of the main thread:
\* a task it runs, or the end of the process.
C17_MapOwnership ==
    [][/\ Len(passes') > Len(passes)
          => /\ rows' = rows /\ table' = table /\ loaded' = loaded
             /\ tasks' = IF passes'[Len(passes')].called
                            /\ passes'[Len(passes')].error = ""
                         THEN Append(tasks, [conn |-> passes'[Len(passes')].conn,
                                             payload |-> handled'[Len(handled')].arg])
                         ELSE tasks
       /\ rows' # rows
          => \/ Len(processed') > Len(processed)
             \/ \E q \in Procs : procs[q].pc # "exited" /\ procs'[q].pc = "exited"]_vars

C17_Witness ==
    /\ Len(handled) = 1
    /\ handled[1].arg = DirectoryPath
    /\ Len(tasks) = 1
    /\ tasks[1].payload = DirectoryPath
    /\ rows = << >>

----------------------------------------------------------------------------
\* Properties of the engine when a Win32 call fails.

Called(name) == \E i \in 1..Len(last.calls) : last.calls[i] = name

\* The write reached step 2 and the attribute read, or the attribute set,
\* of the folder reported failure.
Step2Failed ==
    /\ last.op = "write"
    /\ \/ last.env = "GetFolder" /\ Called("get_folder")
       \/ last.env = "SetFolder" /\ Called("set_folder")

\* C18: when the attribute read or the attribute set of the folder fails in
\* step 2 of a write, the write raises and the sidecar is as it was: not
\* created, not modified, not deleted.
C18_Step2Failure ==
    Step2Failed
    => /\ last.err # ""
       /\ fs[last.folder].ini = last.pre.ini

\* C19: when the attribute set of the sidecar fails in step 5 of a write,
\* the write raises and a read returns what a read returned before the
\* write.
C19_Step5Failure ==
    (last.op = "write" /\ last.env = "SetIni" /\ Called("set_ini"))
    => /\ last.err # ""
       /\ read_info_tip(fs[last.folder]) = read_info_tip(last.pre)

\* C20: after a write that returned and left a sidecar, the folder has the
\* system bit and the sidecar has the hidden and the system bit.
C20_FlagsAfterWrite ==
    (last.op = "write" /\ last.err = "" /\ fs[last.folder].ini.present)
    => /\ BitAnd(fs[last.folder].attrs, FILE_ATTRIBUTE_SYSTEM) = FILE_ATTRIBUTE_SYSTEM
       /\ BitAnd(fs[last.folder].ini.attrs, HiddenSystem) = HiddenSystem

HasSystem(attrs) == BitAnd(attrs, FILE_ATTRIBUTE_SYSTEM) = FILE_ATTRIBUTE_SYSTEM

\* C21: no engine operation clears the system bit of a folder: a folder that
\* has it before a read or a write, whether the write sets a remark, clears
\* one and deletes the sidecar, or fails, has it afterwards.
C21_SystemFlagStays ==
    [][\A f \in Folders : HasSystem(fs[f].attrs) => HasSystem(fs'[f].attrs)]_vars

\* The folder had no system bit at first (attribute 1), a write gave it the
\* bit (5), and the write of the empty remark has now deleted the sidecar.
C21_Witness ==
    /\ last.op = "write" /\ last.err = "" /\ last.remark = << >>
    /\ last.pre.attrs = BitOr(1, FILE_ATTRIBUTE_SYSTEM)
    /\ last.pre.ini.present
    /\ Called("unlink")
    /\ ~fs[last.folder].ini.present
    /\ HasSystem(fs[last.folder].attrs)

\* The attributes the sidecar has when ensure_ini_hidden_system reads them:
\* those of the file that was there, none for a file just created.
IniAttrsBefore == IF last.pre.ini.present THEN last.pre.ini.attrs ELSE 0

\* C22: in a write that returned, ensure_folder_system made no attribute
\* set when the folder had the system bit and one otherwise, and left the
\* folder with its attributes plus the system bit; ensure_ini_hidden_system,
\* when the write reached it, made no attribute set when the sidecar had the
\* hidden and the system bit and one otherwise, and left the sidecar with
\* its attributes plus the two bits.
C22_EnsureAdditive ==
    (last.op = "write" /\ last.err = "")
    => /\ Occurrences(last.calls, "set_folder")
            = (IF HasSystem(last.pre.attrs) THEN 0 ELSE 1)
       /\ fs[last.folder].attrs = BitOr(last.pre.attrs, FILE_ATTRIBUTE_SYSTEM)
       /\ Called("get_ini")
            => /\ Occurrences(last.calls, "set_ini")
                    = (IF BitAnd(IniAttrsBefore, HiddenSystem) = HiddenSystem
                       THEN 0 ELSE 1)
               /\ fs[last.folder].ini.attrs = BitOr(IniAttrsBefore, HiddenSystem)

----------------------------------------------------------------------------
\* Properties of the keys of the sidecar.

\* The keys of .ShellClassInfo in the sidecar of the folder written last, as
\* a reader of the file finds them, and those that are a casing of InfoTip.
SectionAfter ==
    LET parser == safe_read_config(fs[last.folder].ini)
    IN  IF HasSection(parser, SECTION) THEN SectionOpts(parser, SECTION) ELSE << >>

InfoTipKeys(opts) == SelectSeq(opts, LAMBDA e : Lower(e.k) = "infotip")

\* C23: after a write of a remark r that is not empty and that returned, the
\* .ShellClassInfo section of the sidecar holds exactly one key that is a
\* casing of InfoTip; it is spelled InfoTip and its value is r.
C23_KeyCollapse ==
    (last.op = "write" /\ last.err = "" /\ last.remark # << >>)
    => /\ fs[last.folder].ini.present
       /\ InfoTipKeys(SectionAfter) = <<[k |-> "InfoTip", v |-> last.remark]>>

\* The keys of .ShellClassInfo in the sidecar the last call found.
SectionBefore ==
    LET parser == safe_read_config(last.pre.ini)
    IN  IF HasSection(parser, SECTION) THEN SectionOpts(parser, SECTION) ELSE << >>

\* C24: a read of a folder whose .ShellClassInfo section holds a remark
\* under one key that is a casing of InfoTip returns that remark, whatever
\* the casing and whoever wrote the sidecar.
C24_CaseInsensitiveRead ==
    (last.op = "read" /\ Len(InfoTipKeys(SectionBefore)) = 1)
    => /\ last.err = ""
       /\ last.value = InfoTipKeys(SectionBefore)[1].v

----------------------------------------------------------------------------
\* Properties of the listing.

\* A name without regard to case: the upper-case spelling.
CaseFold(name) ==
    CASE name \in {"$RECYCLE.BIN", "$Recycle.Bin", "$recycle.bin"} -> "$RECYCLE.BIN"
      [] name \in {"System Volume Information", "SYSTEM VOLUME INFORMATION"}
            -> "SYSTEM VOLUME INFORMATION"
      [] name \in {"Docs", "docs"} -> "DOCS"
      [] name \in {"TEMP", "Temp", "temp"} -> "TEMP"
      [] OTHER -> name

----------------------------------------------------------------------------
\* Properties of the accept loop and the handler.

\* C26: the handler is called at most once for a connection, and only with
\* a text that is not empty and has no whitespace at either end; for a
\* connection whose body is empty or all whitespace it is never called.
C26_HandlerArgs ==
    /\ \A i \in 1..Len(handled) :
          /\ handled[i].arg # << >>
          /\ Strip(handled[i].arg) = handled[i].arg
          /\ Strip(procs[handled[i].conn].payload) # << >>
    /\ \A i, j \in 1..Len(handled) : handled[i].conn = handled[j].conn => i = j

\* A connection with a blank body was served without a call, and one with
\* the body " a" with the call handler("a").
C26_Witness ==
    /\ \E i \in 1..Len(passes) :
          /\ passes[i].error = "" /\ ~passes[i].called
          /\ procs[passes[i].conn].payload = <<" ">>
          /\ conns[passes[i].conn].arrived = 1
    /\ \E i \in 1..Len(handled) :
          /\ handled[i].arg = <<"a">>
          /\ procs[handled[i].conn].payload = <<" ", "a">>

\* C27: every connection the accept loop has accepted is closed when its
\* pass is over, whether the pass went well or ended in an error; so when
\* the loop accepts again no connection accepted earlier is open, and at
\* most one accepted connection is open at a time.
C27_ClosedBeforeNextAccept ==
    \A i \in 1..Len(passes) : conns[passes[i].conn].state = "closed"

\* A pass that ended in an error of recv, then a pass of the same loop that
\* called the handler.
C27_Witness ==
    /\ Len(passes) = 2
    /\ passes[1].error = "recv"
    /\ passes[2].error = "" /\ passes[2].called
    /\ passes[1].by = passes[2].by
    /\ conns[passes[1].conn].state = "closed"
    /\ conns[passes[2].conn].state = "closed"

----------------------------------------------------------------------------
\* Properties of the directory load.

\* The FolderRemark map rws holds one entry for each path list_subfolders
\* returns on the disk fsys and no other, each with both remarks equal to
\* what a read of the folder returns.
LoadedClean(rws, fsys) ==
    LET subfolders == list_subfolders(fsys)
    IN  /\ Len(rws) = Len(subfolders)
        /\ \A i \in 1..Len(rws) :
              LET got == read_info_tip(fsys[rws[i].k])
              IN  /\ \E j \in 1..Len(subfolders) : subfolders[j] = rws[i].k
                  /\ rws[i].v.path = rws[i].k
                  /\ got.err = ""
                  /\ rws[i].v.original_remark = got.value
                  /\ rws[i].v.current_remark = rws[i].v.original_remark

\* C28: when a directory load is over (on selection or refresh, or after a
\* save), the map is as LoadedClean says.
C28_LoadRebuildsMap ==
    [][(LoadDirectory \/ (SaveChanges /\ loaded /\ Changed(rows) # << >>))
       => LoadedClean(rows', fs')]_vars

----------------------------------------------------------------------------
\* Properties of what a save touches.

\* The paths of the entries whose two remarks differ.
DirtyPaths(rws) ==
    {rws[i].k : i \in {j \in 1..Len(rws) :
                          rws[j].v.current_remark # rws[j].v.original_remark}}

\* C29: a save calls write_info_tip only for the entries that are dirty when
\* it starts, and the window changes nothing on disk for any other folder:
\* a step that changes a folder's sidecar or attributes is another
\* program's, or a save in which the folder's entry was dirty; so a save
\* with no dirty entry leaves the disk as it is.
C29_OnlyDirtyWritten ==
    [][/\ \A i \in 1..Len(report'.attempts) : report'.attempts[i] \in DirtyPaths(rows)
       /\ \A f \in Folders :
             fs'[f] # fs[f] => (ExternalDelete \/ f \in DirtyPaths(rows))]_vars

\* A save wrote the one dirty entry of three and made its sidecar; the
\* clean entry f3 is as it was, without the system attribute.
C29_Witness ==
    /\ report.changed = <<"f1">>
    /\ report.success = <<"f1">>
    /\ Len(report.before) = 3
    /\ fs["f1"].ini.present
    /\ fs["f3"] = PlainFolder

----------------------------------------------------------------------------
\* Properties of a forwarded path arriving while remarks are edited.

\* Every entry of the map rws has both remarks equal to what a read of its
\* folder on the disk fsys returns.
CleanEntries(rws, fsys) ==
    \A i \in 1..Len(rws) :
        LET got == read_info_tip(fsys[rws[i].k])
        IN  /\ got.err = ""
            /\ rws[i].v.original_remark = got.value
            /\ rws[i].v.current_remark = got.value

\* C30: when the main loop runs the task of a forwarded path that exists,
\* the directory is loaded anew: the map holds clean entries of the load
\* and nothing of the edits that were not saved, and no write was made:
\* the disk and the record of engine calls are as before.
C30_ForwardDiscardsEdits ==
    [][(/\ Len(processed') > Len(processed)
        /\ PathExists(Strip(processed'[Len(processed')].payload)))
       => /\ fs' = fs
          /\ last' = last
          /\ loaded'
          /\ CleanEntries(rows', fs')
          /\ DirtyPaths(rows') = {}]_vars

\* The task run last found two edited entries and left a clean map.
C30_Witness ==
    /\ processed # << >>
    /\ PathExists(Strip(processed[Len(processed)].payload))
    /\ Len(processed[Len(processed)].dirty) = 2
    /\ Len(rows) = 3
    /\ DirtyPaths(rows) = {}
    /\ tasks = << >>

----------------------------------------------------------------------------
\* Properties of what a write leaves alone in the sidecar.

\* The file is text in one of the encodings tried and parses without error.
DecodesOk(file) ==
    /\ file.present
    /\ \E i \in 1..Len(Encodings) : file.enc = Encodings[i]
    /\ ReadString(EmptyParser, file.text).ok

OtherSections(p) == SelectSeq(p.sections, LAMBDA sec : sec.name # SECTION)

OtherKeys(opts) == SelectSeq(opts, LAMBDA e : Lower(e.k) # "infotip")

\* C31: a write that returned, on a folder whose sidecar decoded, leaves
\* the document as it was but for the casings of InfoTip in
\* .ShellClassInfo: the DEFAULT entries, the other sections with their
\* keys and values, and the other keys of .ShellClassInfo with their values
\* are the same, in the same order.
C31_WriteFrame ==
    (last.op = "write" /\ last.err = "" /\ DecodesOk(last.pre.ini))
    => /\ safe_read_config(fs[last.folder].ini).defaults
            = safe_read_config(last.pre.ini).defaults
       /\ OtherSections(safe_read_config(fs[last.folder].ini))
            = OtherSections(safe_read_config(last.pre.ini))
       /\ OtherKeys(SectionAfter) = OtherKeys(SectionBefore)

\* A write of "a" over a sidecar of another program that held the remark
\* as infotip next to an icon path with a percent sign.
C31_Witness ==
    /\ last.op = "write" /\ last.err = "" /\ last.remark = <<"a">>
    /\ DecodesOk(last.pre.ini)
    /\ Len(InfoTipKeys(SectionBefore)) = 1
    /\ InfoTipKeys(SectionBefore)[1].k = "infotip"
    /\ OtherKeys(SectionBefore) = <<[k |-> "IconResource", v |-> <<"%">>]>>
    /\ OtherKeys(SectionAfter) = <<[k |-> "IconResource", v |-> <<"%">>]>>

----------------------------------------------------------------------------
\* Properties of the table and the map together.

\* C32: the table and the FolderRemark map hold the same paths, one row for
\* each entry, and each row shows the current_remark of the entry with its
\* path, after any loads, edits of a row, mapping edits, sorts and saves.
C32_ViewModelAgree ==
    /\ Len(table) = Len(rows)
    /\ {table[i].path : i \in 1..Len(table)} = {rows[i].k : i \in 1..Len(rows)}
    /\ \A i \in 1..Len(table) :
          /\ DictHas(rows, table[i].path)
          /\ table[i].remark = DictGet(rows, table[i].path).current_remark

\* The table sorted by remark, downwards, with two entries edited: the rows
\* are in another order than the entries of the map.
C32_Witness ==
    /\ Len(table) = 3
    /\ ~sort_directions["remark"]
    /\ table[1].path = "f3" /\ table[1].remark = <<"a">>
    /\ table[3].path = "f2" /\ table[3].remark = << >>
    /\ DirtyPaths(rows) = {"f2", "f3"}

====
